---- MODULE Spec2Model ----
(***************************************************************************)
(* BitPackingArray (bit_packing.py): a byte array used as an arbitrarily   *)
(* nested array whose cells are bits_per_index bits wide.                  *)
(*                                                                         *)
(* The object's fields are the variables dimensions, bits_per_index and    *)
(* _array.  lastOp records the last call made on the object: which method, *)
(* its arguments, how it ended (normal return or the exception raised) and *)
(* the value returned.                                                     *)
(*                                                                         *)
(* A position argument is either an int or a tuple; it is modelled as a    *)
(* record [is_int, coords] where is_int tells that the caller passed the   *)
(* bare integer coords[1].                                                 *)
(***************************************************************************)
EXTENDS Integers, Sequences, FiniteSets

VARIABLES dimensions, bits_per_index, _array, lastOp

vars == <<dimensions, bits_per_index, _array, lastOp>>

-----------------------------------------------------------------------------
(* Bounds of the model.                                                    *)

\* longest 1-dimensional array (construction and append stop there)
MaxLen == 3
\* largest number of cells of a constructed multi-dimensional array
MaxCells == 4
\* the bit widths 1-dimensional arrays are constructed with: inside a byte,
\* a whole byte, and 13 bits, whose cells start at bits 0, 5, 2 and 7 of a
\* byte and span two or three bytes
Widths == {1, 5, 8, 13}
\* the bit widths multi-dimensional arrays are constructed with
GridWidths == {1, 3, 5, 8, 13, 20}

-----------------------------------------------------------------------------
(* Integer helpers standing for Python's operators on non-negative ints.   *)

\* x >> n
Shr(x, n) == x \div (2 ^ n)
\* x << n
Shl(x, n) == x * (2 ^ n)
\* x & ((1 << n) - 1)
LowBits(x, n) == x % (2 ^ n)
\* min(a, b)
Min(a, b) == IF a <= b THEN a ELSE b

\* outcomes of a call: normal return, or the exception and where it is raised
OK == "ok"
IndexErr == "IndexError"                    \* _index_generator, line 31
ArityErr == "ValueError: position"          \* _get_actual_position, line 40
ValueErr == "ValueError: value"             \* set, line 84
ShapeErr == "ValueError: appending"         \* append, line 119
ByteErr == "ValueError: byte"               \* bytearray item not in range(0, 256)
BufferErr == "IndexError: bytearray"        \* bytearray index out of range

-----------------------------------------------------------------------------
(* __init__                                                                *)

RECURSIVE ProductFrom(_, _)
\* the loop of lines 19-21: total_bits *= d for the dimensions from i on
ProductFrom(dims, i) ==
    IF i > Len(dims) THEN 1 ELSE dims[i] * ProductFrom(dims, i + 1)

\* TotalBytes rounding up even when total_bits is a multiple of 8
TotalBytes_up(total_bits) == (total_bits \div 8) + 1

\* lines 23 and 123: (total_bits // 8) + (total_bits % 8 != 0)
TotalBytes(total_bits) ==
    (total_bits \div 8) + (IF total_bits % 8 # 0 THEN 1 ELSE 0)

\* bytearray(n)
ZeroArray(n) == [i \in 1..n |-> 0]

\* the buffer allocated by the constructor
NewArray(dims, bits) == ZeroArray(TotalBytes(bits * ProductFrom(dims, 1)))

-----------------------------------------------------------------------------
(* _index_generator and _get_actual_position                               *)

\* line 29
ActualPosition(pos, dimension_length) ==
    IF pos >= 0 THEN pos ELSE dimension_length + pos

\* InDimension with the upper bound included
InDimension_le(actual_position, dimension_length) ==
    0 <= actual_position /\ actual_position <= dimension_length

\* line 30
InDimension(actual_position, dimension_length) ==
    0 <= actual_position /\ actual_position < dimension_length

\* the depths at which _index_generator raises IndexError
BadDepths(coords, dims) ==
    {d \in 1..Len(coords) :
        ~InDimension(ActualPosition(coords[d], dims[d]), dims[d])}

RECURSIVE Accumulate_prev(_, _, _, _)
\* Accumulate multiplying by the previous dimension's length
Accumulate_prev(coords, dims, i, which_bit) ==
    IF i > Len(coords) THEN which_bit
    ELSE Accumulate_prev(coords, dims, i + 1,
            (which_bit * dims[i - 1]) + ActualPosition(coords[i], dims[i]))

RECURSIVE Accumulate(_, _, _, _)
\* the loop of lines 47-48, from dimension i (1-based) on
Accumulate(coords, dims, i, which_bit) ==
    IF i > Len(coords) THEN which_bit
    ELSE Accumulate(coords, dims, i + 1,
            (which_bit * dims[i]) + ActualPosition(coords[i], dims[i]))

\* returns the outcome and (which_byte, start_bit)
GetActualPosition(position, dims, bits) ==
    LET coords == position.coords
    IN  IF Len(coords) # Len(dims)
        THEN [outcome |-> ArityErr, which_byte |-> 0, start_bit |-> 0]
        ELSE IF BadDepths(coords, dims) # {}
        THEN [outcome |-> IndexErr, which_byte |-> 0, start_bit |-> 0]
        ELSE LET which_bit ==
                   Accumulate(coords, dims, 2,
                              ActualPosition(coords[1], dims[1])) * bits
             IN  [outcome |-> OK,
                  which_byte |-> which_bit \div 8,
                  start_bit |-> which_bit % 8]

-----------------------------------------------------------------------------
(* bytearray item access: byte number i (from 0) of the buffer             *)

HasByte(arr, i) == 0 <= i /\ i < Len(arr)

\* arr[i]; only used where HasByte(arr, i) has been established
ByteAt(arr, i) == arr[i + 1]

\* arr[i] = v on a buffer state st = [outcome, array]: raises IndexError past
\* the end of the buffer and ValueError when v is not in range(0, 256)
StoreByte(st, i, v) ==
    IF st.outcome # OK THEN st
    ELSE IF ~HasByte(st.array, i) THEN [st EXCEPT !.outcome = BufferErr]
    ELSE IF v < 0 \/ v > 255 THEN [st EXCEPT !.outcome = ByteErr]
    ELSE [st EXCEPT !.array[i + 1] = v]

\* the byte an augmented assignment reads (0 stands for "no byte": the store
\* that follows raises before the value is used)
Load(st, i) == IF HasByte(st.array, i) THEN ByteAt(st.array, i) ELSE 0

-----------------------------------------------------------------------------
(* get                                                                     *)

\* lines 63-66: reading first byte
GetFirstByte(arr, which_byte, byte_start_position, current_bit_position) ==
    LowBits(Shr(ByteAt(arr, which_byte), byte_start_position),
            current_bit_position)

RECURSIVE GetMiddleBytes(_, _)
\* lines 68-73: reading middle byte(s); r = [outcome, value, which_byte,
\* bits_left_to_read, current_bit_position]
GetMiddleBytes(arr, r) ==
    IF r.outcome # OK \/ r.bits_left_to_read < 8 THEN r
    ELSE IF ~HasByte(arr, r.which_byte) THEN [r EXCEPT !.outcome = BufferErr]
    ELSE GetMiddleBytes(arr,
            [r EXCEPT !.value = r.value
                                + Shl(ByteAt(arr, r.which_byte),
                                      r.current_bit_position),
                      !.bits_left_to_read = r.bits_left_to_read - 8,
                      !.current_bit_position = r.current_bit_position + 8,
                      !.which_byte = r.which_byte + 1])

\* GetLastByte without the mask of the bits left to read
GetLastByte_nomask(arr, r) ==
    IF r.outcome # OK \/ r.bits_left_to_read <= 0 THEN r
    ELSE IF ~HasByte(arr, r.which_byte) THEN [r EXCEPT !.outcome = BufferErr]
    ELSE [r EXCEPT !.value = r.value
                      + Shl(ByteAt(arr, r.which_byte),
                            r.current_bit_position)]

\* lines 75-77: reading last byte
GetLastByte(arr, r) ==
    IF r.outcome # OK \/ r.bits_left_to_read <= 0 THEN r
    ELSE IF ~HasByte(arr, r.which_byte) THEN [r EXCEPT !.outcome = BufferErr]
    ELSE [r EXCEPT !.value = r.value
                      + Shl(LowBits(ByteAt(arr, r.which_byte),
                                    r.bits_left_to_read),
                            r.current_bit_position)]

\* get(position) on an object with fields arr, dims, bits: [outcome, value]
Get(arr, dims, bits, position) ==
    LET at == GetActualPosition(position, dims, bits)
        current_bit_position == Min(8 - at.start_bit, bits)
    IN  IF at.outcome # OK THEN [outcome |-> at.outcome, value |-> 0]
        ELSE IF ~HasByte(arr, at.which_byte)
        THEN [outcome |-> BufferErr, value |-> 0]
        ELSE LET first == [outcome |-> OK,
                           value |-> GetFirstByte(arr, at.which_byte,
                                         at.start_bit, current_bit_position),
                           which_byte |-> at.which_byte + 1,
                           bits_left_to_read |-> bits - current_bit_position,
                           current_bit_position |-> current_bit_position]
                 last == GetLastByte(arr, GetMiddleBytes(arr, first))
             IN  [outcome |-> last.outcome,
                  value |-> IF last.outcome = OK THEN last.value ELSE 0]

-----------------------------------------------------------------------------
(* set                                                                     *)

\* ValueInRange with the bound one too high
ValueInRange_off(new_value, bits) ==
    ~(new_value > Shl(1, bits) \/ new_value < 0)

\* line 83, negated: the values set accepts
ValueInRange(new_value, bits) ==
    ~(new_value > (Shl(1, bits) - 1) \/ new_value < 0)

\* lines 89-97: setting first byte; st = [outcome, array]
SetFirstByte(st, which_byte, byte_start_position, bits_left_in_first_byte, new_value) ==
    LET first_byte_start_bits ==
            LowBits(Load(st, which_byte), byte_start_position)
        current_value_to_write == LowBits(new_value, bits_left_in_first_byte)
        s1 == StoreByte(st, which_byte,
                  Shr(Load(st, which_byte),
                      byte_start_position + bits_left_in_first_byte))
        s2 == StoreByte(s1, which_byte,
                  Shl(Load(s1, which_byte), bits_left_in_first_byte))
        s3 == StoreByte(s2, which_byte,
                  Load(s2, which_byte) + current_value_to_write)
        s4 == StoreByte(s3, which_byte,
                  Shl(Load(s3, which_byte), byte_start_position))
    IN  StoreByte(s4, which_byte, Load(s4, which_byte) + first_byte_start_bits)

RECURSIVE SetMiddleBytes(_)
\* lines 102-108: setting middle byte(s); r = [st, which_byte, new_value,
\* bits_left_to_set].  Line 105 stores new_value itself, not the masked
\* current_value_to_write of line 104.
SetMiddleBytes(r) ==
    IF r.st.outcome # OK \/ r.bits_left_to_set < 8 THEN r
    ELSE SetMiddleBytes(
            [st |-> StoreByte(r.st, r.which_byte, r.new_value),
             which_byte |-> r.which_byte + 1,
             new_value |-> Shr(r.new_value, 8),
             bits_left_to_set |-> r.bits_left_to_set - 8])

\* SetLastByte overwriting the whole byte
SetLastByte_whole(st, which_byte, bits_left_to_set, new_value) ==
    IF st.outcome # OK \/ bits_left_to_set <= 0 THEN st
    ELSE StoreByte(st, which_byte, new_value)

\* lines 110-114: setting last bit(s)
SetLastByte(st, which_byte, bits_left_to_set, new_value) ==
    IF st.outcome # OK \/ bits_left_to_set <= 0 THEN st
    ELSE LET s1 == StoreByte(st, which_byte,
                       Shr(Load(st, which_byte), bits_left_to_set))
             s2 == StoreByte(s1, which_byte,
                       Shl(Load(s1, which_byte), bits_left_to_set))
         IN  StoreByte(s2, which_byte, Load(s2, which_byte) + new_value)

\* set(position, new_value): [outcome, array]
Set(arr, dims, bits, position, new_value) ==
    LET at == GetActualPosition(position, dims, bits)
        bits_left_in_first_byte == Min(8 - at.start_bit, bits)
    IN  IF ~ValueInRange(new_value, bits)
        THEN [outcome |-> ValueErr, array |-> arr]
        ELSE IF at.outcome # OK THEN [outcome |-> at.outcome, array |-> arr]
        ELSE LET first == SetFirstByte([outcome |-> OK, array |-> arr],
                              at.which_byte, at.start_bit,
                              bits_left_in_first_byte, new_value)
                 middle == SetMiddleBytes(
                              [st |-> first,
                               which_byte |-> at.which_byte + 1,
                               new_value |-> Shr(new_value,
                                                 bits_left_in_first_byte),
                               bits_left_to_set |->
                                   bits - bits_left_in_first_byte])
             IN  SetLastByte(middle.st, middle.which_byte,
                             middle.bits_left_to_set, middle.new_value)

-----------------------------------------------------------------------------
(* zero_bytes and append                                                   *)

\* line 55: self._array.__init__(len(self._array))
ZeroBytes(arr) == ZeroArray(Len(arr))

RECURSIVE Extend(_, _)
\* lines 124-125: while len(self._array) < total_bytes: append(0)
Extend(arr, total_bytes) ==
    IF Len(arr) < total_bytes THEN Extend(Append(arr, 0), total_bytes)
    ELSE arr

\* the position -1 that append passes to set
LastPosition == [is_int |-> TRUE, coords |-> <<-1>>]

\* append(new_value): [outcome, array, dimensions]
AppendValue(arr, dims, bits, new_value) ==
    IF Len(dims) > 1
    THEN [outcome |-> ShapeErr, array |-> arr, dimensions |-> dims]
    ELSE LET total_bits == bits * (dims[1] + 1)
             grown == Extend(arr, TotalBytes(total_bits))
             new_dims == <<dims[1] + 1>>
             written == Set(grown, new_dims, bits, LastPosition, new_value)
         IN  [outcome |-> written.outcome,
              array |-> written.array,
              dimensions |-> new_dims]

-----------------------------------------------------------------------------
(* The arguments callers pass.                                             *)

\* 1-dimensional shapes, and the shapes of 2 and more dimensions
Shapes1D == {<<n>> : n \in 1..MaxLen}
Ranks == {2, 3}
GridShapes ==
    {dims \in UNION {[1..r -> 1..MaxCells] : r \in Ranks} :
        ProductFrom(dims, 1) <= MaxCells}

MaxOf(dims) == CHOOSE m \in {dims[i] : i \in 1..Len(dims)} :
                   \A i \in 1..Len(dims) : dims[i] <= m

\* tuples of the right length: every in-range component, negative ones
\* included, and one step past either end of each dimension; bare integers
\* for the first cell, the last one and one past the end; a tuple too short
\* and one too long
Coords(dims) ==
    {c \in [1..Len(dims) -> -(MaxOf(dims) + 1)..MaxOf(dims)] :
        \A i \in 1..Len(dims) : -(dims[i] + 1) <= c[i] /\ c[i] <= dims[i]}

NoPosition == [is_int |-> FALSE, coords |-> <<>>]

PositionInputs(dims) ==
    {[is_int |-> FALSE, coords |-> c] : c \in Coords(dims)}
    \cup {[is_int |-> TRUE, coords |-> <<p>>] : p \in {-1, 0, dims[1]}}
    \cup {NoPosition,
          [is_int |-> FALSE, coords |-> [i \in 1..(Len(dims) + 1) |-> 0]]}

\* values: zero, a bit pattern, the largest value, and one past either end
ValueInputs(bits) ==
    {-1, 0, 1365 % (2 ^ bits), (2 ^ bits) - 1, 2 ^ bits}

-----------------------------------------------------------------------------
(* The object and the calls made on it.                                    *)

Call(op, position, value, outcome, result) ==
    [op |-> op, position |-> position, value |-> value,
     outcome |-> outcome, result |-> result]

\* BitPackingArray(dims, bits)
Construct(dims, bits) ==
    /\ dimensions = dims
    /\ bits_per_index = bits
    /\ _array = NewArray(dims, bits)
    /\ lastOp = Call("__init__", NoPosition, 0, OK, 0)

Init == \E dims \in Shapes1D, bits \in Widths : Construct(dims, bits)

InitGrid ==
    \E dims \in GridShapes, bits \in GridWidths : Construct(dims, bits)

get ==
    \E position \in PositionInputs(dimensions) :
        LET r == Get(_array, dimensions, bits_per_index, position)
        IN  /\ lastOp' = Call("get", position, 0, r.outcome, r.value)
            /\ UNCHANGED <<dimensions, bits_per_index, _array>>

set ==
    \E position \in PositionInputs(dimensions),
       new_value \in ValueInputs(bits_per_index) :
        LET r == Set(_array, dimensions, bits_per_index, position, new_value)
        IN  /\ _array' = r.array
            /\ lastOp' = Call("set", position, new_value, r.outcome, 0)
            /\ UNCHANGED <<dimensions, bits_per_index>>

zero_bytes ==
    /\ _array' = ZeroBytes(_array)
    /\ lastOp' = Call("zero_bytes", NoPosition, 0, OK, 0)
    /\ UNCHANGED <<dimensions, bits_per_index>>

append ==
    /\ Len(dimensions) = 1 => dimensions[1] < MaxLen
    /\ \E new_value \in ValueInputs(bits_per_index) :
        LET r == AppendValue(_array, dimensions, bits_per_index, new_value)
        IN  /\ _array' = r.array
            /\ dimensions' = r.dimensions
            /\ lastOp' = Call("append", NoPosition, new_value, r.outcome, 0)
            /\ UNCHANGED bits_per_index

Next == get \/ set \/ zero_bytes \/ append

\* 1-dimensional arrays under every call
Spec == Init /\ [][Next]_vars

NextGrid == get \/ zero_bytes \/ append

\* arrays of 2 and more dimensions under the calls that write no cell
SpecGrid == InitGrid /\ [][NextGrid]_vars

-----------------------------------------------------------------------------
(* What the claims are stated in: the bits of the buffer, numbered from    *)
(* the least-significant bit of byte 0, and the cells of the array.        *)

\* ceil(a / b)
CeilDiv(a, b) == (a + b - 1) \div b

Cells(dims) == ProductFrom(dims, 1)

\* bit number b of the buffer: bit (b mod 8) of byte (b div 8)
Bit(arr, b) == (arr[(b \div 8) + 1] \div (2 ^ (b % 8))) % 2

RECURSIVE SpanValue(_, _, _)
\* the integer whose bit k is bit number lo + k of the buffer, 0 <= k < width
SpanValue(arr, lo, width) ==
    IF width = 0 THEN 0
    ELSE Bit(arr, lo) + 2 * SpanValue(arr, lo + 1, width - 1)

\* -L <= p < L in every dimension, and as many components as dimensions
InRange(coords, dims) ==
    /\ Len(coords) = Len(dims)
    /\ \A i \in 1..Len(dims) : -dims[i] <= coords[i] /\ coords[i] < dims[i]

\* the coordinates addressed: L + p for a negative p
Resolved(coords, dims) ==
    [i \in 1..Len(coords) |->
        IF coords[i] < 0 THEN dims[i] + coords[i] ELSE coords[i]]

RECURSIVE RowMajorFrom(_, _, _)
\* the row-major index: each coordinate times the lengths of the dimensions
\* after it
RowMajorFrom(coords, dims, i) ==
    IF i > Len(coords) THEN 0
    ELSE Resolved(coords, dims)[i] * ProductFrom(dims, i + 1)
         + RowMajorFrom(coords, dims, i + 1)

RowMajor(coords, dims) == RowMajorFrom(coords, dims, 1)

MaxValue(bits) == (2 ^ bits) - 1

Accepted(value, bits) == 0 <= value /\ value <= MaxValue(bits)

IntPos(p) == [is_int |-> TRUE, coords |-> <<p>>]

\* the in-range positions of the current array
ValidPositions(dims) ==
    {q \in PositionInputs(dims) : InRange(q.coords, dims)}

-----------------------------------------------------------------------------
(* C1.  Round trip: set(p, v) with a valid position p and a value v in     *)
(* 0..2^bits_per_index - 1 returns normally, and get(p) then returns v.    *)
RoundTrip ==
    (/\ lastOp.op = "set"
     /\ InRange(lastOp.position.coords, dimensions)
     /\ Accepted(lastOp.value, bits_per_index))
    => /\ lastOp.outcome = OK
       /\ Get(_array, dimensions, bits_per_index, lastOp.position)
              = [outcome |-> OK, value |-> lastOp.value]

(* C4.  Failure atomicity of set: whenever set raises, the buffer and the  *)
(* dimensions are what they were before the call.                          *)
SetFailureAtomic ==
    [][(lastOp'.op = "set" /\ lastOp'.outcome # OK)
       => (_array' = _array /\ dimensions' = dimensions)]_vars

(* C5.  Append growth: on a 1-dimensional array of length n, append(v)     *)
(* with v in 0..2^bits_per_index - 1 returns normally, and afterwards      *)
(* dimensions = (n+1,), get(n) = v and get(i) is unchanged for i < n.      *)
AppendGrowth ==
    [][(/\ lastOp'.op = "append"
        /\ Len(dimensions) = 1
        /\ Accepted(lastOp'.value, bits_per_index))
       => LET n == dimensions[1]
          IN  /\ lastOp'.outcome = OK
              /\ dimensions' = <<n + 1>>
              /\ Get(_array', dimensions', bits_per_index, IntPos(n))
                     = [outcome |-> OK, value |-> lastOp'.value]
              /\ \A i \in 0..(n - 1) :
                     Get(_array', dimensions', bits_per_index, IntPos(i))
                         = Get(_array, dimensions, bits_per_index, IntPos(i))
      ]_vars

(* C9.  Failed append does not grow the array: when append on a            *)
(* 1-dimensional array of length n raises for a value out of range,        *)
(* dimensions is still (n,) and get(n) still raises IndexError.            *)
FailedAppendKeepsLength ==
    [][(lastOp'.op = "append" /\ lastOp'.outcome = ValueErr)
       => /\ dimensions' = dimensions
          /\ Get(_array', dimensions', bits_per_index,
                 IntPos(dimensions[1])).outcome = IndexErr
      ]_vars

-----------------------------------------------------------------------------
(* C2.  Non-interference: a set(p, v) that returns normally leaves every   *)
(* bit of the buffer outside the span of p's cell unchanged, so get(q) of  *)
(* every valid q addressing another cell returns what it returned before.  *)
NonInterference ==
    [][(lastOp'.op = "set" /\ lastOp'.outcome = OK)
       => LET p == lastOp'.position.coords
              lo == RowMajor(p, dimensions) * bits_per_index
              hi == lo + bits_per_index
          IN  /\ Len(_array') = Len(_array)
              \* every byte the span does not touch is unchanged
              /\ \A i \in 0..(Len(_array) - 1) :
                     (8 * i + 7 < lo \/ 8 * i >= hi)
                     => ByteAt(_array', i) = ByteAt(_array, i)
              \* in the bytes it touches, so is every bit outside the span
              /\ \A b \in (8 * (lo \div 8))..(8 * ((hi - 1) \div 8) + 7) :
                     (b < lo \/ b >= hi) => Bit(_array', b) = Bit(_array, b)
              /\ \A q \in ValidPositions(dimensions) :
                     Resolved(q.coords, dimensions) # Resolved(p, dimensions)
                     => Get(_array', dimensions, bits_per_index, q)
                            = Get(_array, dimensions, bits_per_index, q)
      ]_vars

\* a write over three bytes, starting inside a byte, between two cells whose
\* bits are all set
NonInterferenceWitness ==
    /\ lastOp.op = "set"
    /\ lastOp.outcome = OK
    /\ dimensions = <<3>>
    /\ Resolved(lastOp.position.coords, dimensions) = <<1>>
    /\ (bits_per_index % 8) # 0
    /\ (2 * bits_per_index - 1) \div 8 >= (bits_per_index \div 8) + 2
    /\ lastOp.value # MaxValue(bits_per_index)
    /\ \A i \in {0, 2} :
           Get(_array, dimensions, bits_per_index, IntPos(i)).value
               = MaxValue(bits_per_index)

(* C3.  Storage size: after construction and after every call, raising or  *)
(* not, len(_array) = ceil(bits_per_index * product(dimensions) / 8).      *)
StorageSize ==
    Len(_array) = CeilDiv(bits_per_index * Cells(dimensions), 8)

\* an append that had to extend the buffer, and raised
StorageSizeWitness ==
    /\ lastOp.op = "append"
    /\ lastOp.outcome # OK
    /\ Len(dimensions) = 1
    /\ Len(_array) > CeilDiv(bits_per_index * (dimensions[1] - 1), 8)

(* C6.  Negative indexing and bounds: get and set accept a component p of  *)
(* a dimension of length L exactly when -L <= p < L and otherwise raise    *)
(* IndexError leaving the buffer as it was; an accepted negative p         *)
(* addresses the cell L + p: get returns what get at L + p returns, and    *)
(* set writes the cell that get at L + p reads.  (Stated of the calls that *)
(* reach the index check: position of the right length, and for set a      *)
(* value in range.)                                                        *)
IndexingAndBounds ==
    [][(/\ lastOp'.op \in {"get", "set"}
        /\ Len(lastOp'.position.coords) = Len(dimensions)
        /\ lastOp'.op = "set" => Accepted(lastOp'.value, bits_per_index))
       => LET p == lastOp'.position
              inside == InRange(p.coords, dimensions)
              same == [p EXCEPT !.coords = Resolved(p.coords, dimensions)]
          IN  /\ (lastOp'.outcome = IndexErr) <=> ~inside
              /\ ~inside => _array' = _array
              /\ (inside /\ lastOp'.op = "get")
                 => [outcome |-> lastOp'.outcome, value |-> lastOp'.result]
                        = Get(_array, dimensions, bits_per_index, same)
              /\ (inside /\ lastOp'.op = "set")
                 => /\ [outcome |-> lastOp'.outcome, array |-> _array']
                        = Set(_array, dimensions, bits_per_index, same,
                              lastOp'.value)
                    /\ lastOp'.outcome = OK
                       => Get(_array', dimensions, bits_per_index, same)
                              = [outcome |-> OK, value |-> lastOp'.value]
      ]_vars

\* a set through a negative index that wrote a non-zero value
IndexingAndBoundsWitness ==
    /\ lastOp.op = "set"
    /\ lastOp.outcome = OK
    /\ lastOp.value # 0
    /\ \E i \in 1..Len(lastOp.position.coords) : lastOp.position.coords[i] < 0
    /\ Len(dimensions) = 1
    /\ dimensions[1] >= 2

(* C7.  get reads a little-endian bit span: for a valid position of linear *)
(* index idx, get returns the integer whose bit k is bit number            *)
(* idx * bits_per_index + k of the buffer; get changes neither the buffer  *)
(* nor the dimensions.                                                     *)
GetReadsSpan ==
    [][lastOp'.op = "get"
       => /\ _array' = _array
          /\ dimensions' = dimensions
          /\ InRange(lastOp'.position.coords, dimensions)
             => /\ lastOp'.outcome = OK
                /\ lastOp'.result
                     = SpanValue(_array,
                           RowMajor(lastOp'.position.coords, dimensions)
                               * bits_per_index,
                           bits_per_index)
      ]_vars

\* a non-zero read over three bytes that starts inside a byte
GetReadsSpanWitness ==
    /\ lastOp.op = "get"
    /\ lastOp.outcome = OK
    /\ lastOp.result > 255
    /\ InRange(lastOp.position.coords, dimensions)
    /\ LET lo == RowMajor(lastOp.position.coords, dimensions) * bits_per_index
       IN  /\ lo % 8 # 0
           /\ (lo + bits_per_index - 1) \div 8 >= (lo \div 8) + 2

(* C10.  Padding bits stay zero: after construction and after every call,  *)
(* raising or not, every bit of the buffer numbered                        *)
(* bits_per_index * product(dimensions) or more is 0; the cell an append   *)
(* creates holds 0 before the new value is written.                        *)
PaddingZero ==
    /\ \A b \in (bits_per_index * Cells(dimensions))..(8 * Len(_array) - 1) :
           Bit(_array, b) = 0
    /\ (lastOp.op = "append" /\ lastOp.outcome = ValueErr)
       => Get(_array, dimensions, bits_per_index, LastPosition)
              = [outcome |-> OK, value |-> 0]

\* the last cell has every bit set and padding bits follow it
PaddingZeroWitness ==
    /\ lastOp.op \in {"set", "append"}
    /\ lastOp.outcome = OK
    /\ (bits_per_index * Cells(dimensions)) % 8 # 0
    /\ Len(_array) >= 2
    /\ Get(_array, dimensions, bits_per_index, LastPosition).value
           = MaxValue(bits_per_index)

-----------------------------------------------------------------------------
(* C8.  Row-major linearization: for a position of the right length with   *)
(* every component in range, the cell index computed is the row-major      *)
(* index (first dimension most significant); it lies in                    *)
(* 0..product(dimensions) - 1, positions resolving to different            *)
(* coordinates get different indices, and the cell's bit span lies inside  *)
(* the buffer.                                                             *)
RowMajorLinearization ==
    (lastOp.op = "get" /\ InRange(lastOp.position.coords, dimensions))
    => LET at == GetActualPosition(lastOp.position, dimensions,
                                   bits_per_index)
           idx == RowMajor(lastOp.position.coords, dimensions)
       IN  /\ at.outcome = OK
           /\ 8 * at.which_byte + at.start_bit = idx * bits_per_index
           /\ 0 <= at.start_bit /\ at.start_bit < 8
           /\ 0 <= idx /\ idx < Cells(dimensions)
           /\ \A q \in ValidPositions(dimensions) :
                  Resolved(q.coords, dimensions)
                      # Resolved(lastOp.position.coords, dimensions)
                  => GetActualPosition(q, dimensions, bits_per_index) # at
           /\ (idx + 1) * bits_per_index <= 8 * Len(_array)
           /\ lastOp.outcome = OK

\* a cell off the first row of a 3-dimensional array whose dimensions differ
RowMajorLinearizationWitness ==
    /\ lastOp.op = "get"
    /\ lastOp.outcome = OK
    /\ Len(dimensions) = 3
    /\ dimensions[1] # dimensions[2]
    /\ dimensions[3] >= 2
    /\ InRange(lastOp.position.coords, dimensions)
    /\ Resolved(lastOp.position.coords, dimensions)[1] >= 1
    /\ Resolved(lastOp.position.coords, dimensions)[3] >= 1

====
